---------------------------- MODULE Spec2Model ----------------------------
(***************************************************************************)
(* The transcript segmentation core of ai-clips-maker:                     *)
(*   txtslice/tiler_algorithm.py  TextTiler, smooth, TextTilerConfigManager *)
(*   txtslice/segment_picker.py   ClipFinder, ClipFinderConfigManager       *)
(*                                                                         *)
(* Numbers.  Embeddings are tensors of shape (N, 1): one exact rational    *)
(* per sentence, written [n |-> numerator, d |-> denominator > 0] in       *)
(* lowest terms.  For one-dimensional vectors the cosine similarity of two *)
(* pooled windows is the product of their signs, so gap scores are -1, 0   *)
(* or 1.  smooth() divides by window_len; the model carries the smoothed   *)
(* scores as numerators over that common denominator.  Depth scores and    *)
(* the cutoff are homogeneous of degree one in the scores, so every        *)
(* comparison made by _identify_boundaries has the same outcome on the     *)
(* numerators.  Arithmetic is exact: floating-point rounding is not        *)
(* modelled.  Python values that can have the wrong type are records       *)
(* [type, v]; Python's 0-based indices are shifted to 1-based sequences.   *)
(***************************************************************************)
EXTENDS Integers, Sequences, FiniteSets, TLC

VARIABLES
    \* ---- one TextTiler.text_tile call
    tt_args,            \* the arguments of the call
    tt_out,             \* its outcome: returned pair or raised exception
    tt_pc,              \* "call" before, "returned" after
    \* ---- one check_valid_config / ClipFinder.__init__ call
    cm_cfg,             \* the configuration dictionary
    cm_out,             \* outcome of check_valid_config and of __init__
    cm_pc,
    \* ---- one call of smooth
    sm_args,            \* [x, window_len]
    sm_out,             \* [raised, y, den]
    sm_pc,
    \* ---- one call of ClipFinder._remove_duplicates
    rd_args,            \* [potential, existing, min_dur, max_dur]
    rd_out,             \* [results, existing]: the returned list, existing after
    rd_pc,
    \* ---- one call of a single stage of text_tile
    st_args,            \* [stage, ...]: the stage called and its arguments
    st_out,             \* what the stage returned
    st_pc,
    \* ---- find_clips calls on one ClipFinder
    self,               \* the ClipFinder's fields
    default_final_clips,\* the list object that is the default of final_clips
    round_owner,        \* the call that last assigned self._text_tile_round
    running,            \* the call whose locals are the variables below
    other,              \* the locals of the call that is not running
    transcription,      \* [sentences, end_time, num_chars] of the Transcription
    sentence_embeddings,\* what embed_sentences returned
    final_clips,        \* the list bound to clips in find_clips
    clips,              \* working clips of _text_tile_multiple_rounds
    clip_embeddings,    \* working embeddings of _text_tile_multiple_rounds
    new_clips,          \* what the last round of the running loop accepted
    last_boundaries,    \* the flags text_tile returned to the last round
    tier_idx,           \* position in the tier list of line 82
    k_idx,              \* position in the tier's k_vals
    pc,                 \* "start", "rounds", "returned", "raised", "idle"
    result              \* [raised, value]: the exception or the returned list

tile_vars == <<tt_args, tt_out, tt_pc>>
cm_vars == <<cm_cfg, cm_out, cm_pc>>
sm_vars == <<sm_args, sm_out, sm_pc>>
rd_vars == <<rd_args, rd_out, rd_pc>>
st_vars == <<st_args, st_out, st_pc>>
\* the locals of one find_clips call
run_vars == <<transcription, sentence_embeddings, final_clips, clips,
              clip_embeddings, new_clips, last_boundaries, tier_idx, k_idx, pc,
              result>>
\* what the calls on one ClipFinder share, and which of them is running
shared_vars == <<self, default_final_clips, round_owner>>
sched_vars == <<running, other>>
fc_vars == <<self, default_final_clips, round_owner, running, other,
             transcription, sentence_embeddings, final_clips, clips,
             clip_embeddings, new_clips, last_boundaries, tier_idx, k_idx, pc,
             result>>
vars == <<tt_args, tt_out, tt_pc, cm_cfg, cm_out, cm_pc, sm_args, sm_out, sm_pc,
          rd_args, rd_out, rd_pc, st_args, st_out, st_pc, self, default_final_clips, round_owner,
          running, other, transcription, sentence_embeddings, final_clips,
          clips, clip_embeddings, new_clips, last_boundaries, tier_idx, k_idx,
          pc, result>>

(***************************************************************************)
(* Bounds of the model.                                                    *)
(***************************************************************************)
MaxTileLen == 5         \* longest embedding sequence handed to text_tile alone

SmallUnits == 4         \* sentences of the short transcript

MidUnits == 9           \* sentences of the middle transcript

MaxUnits == 18          \* sentences of the long transcript

MaxBlock == 2           \* longest topic of a block pattern

MaxFlip == 2            \* pairs of a pair pattern that may be turned round

BOUNDARY == 1

(***************************************************************************)
(* Exact arithmetic.                                                       *)
(***************************************************************************)
Abs(x) == IF x < 0 THEN -x ELSE x

Sign(x) == IF x > 0 THEN 1 ELSE IF x < 0 THEN -1 ELSE 0

Min2(a, b) == IF a < b THEN a ELSE b

Max2(a, b) == IF a > b THEN a ELSE b

RECURSIVE Gcd(_, _)
Gcd(a, b) == IF b = 0 THEN a ELSE Gcd(b, a % b)

Rat(n, d) == LET g == Gcd(Abs(n), d) IN [n |-> n \div g, d |-> d \div g]

RatAdd(x, y) == Rat(x.n * y.d + y.n * x.d, x.d * y.d)

RatAbsGreater(x, y) == Abs(x.n) * y.d > Abs(y.n) * x.d

\* sums by halving: exact, so the order of the additions does not matter
RECURSIVE SumRatRange(_, _, _)
SumRatRange(s, lo, hi) ==
    IF lo > hi THEN Rat(0, 1)
    ELSE IF lo = hi THEN s[lo]
    ELSE LET mid == (lo + hi) \div 2
         IN  RatAdd(SumRatRange(s, lo, mid), SumRatRange(s, mid + 1, hi))

SumRat(s) == SumRatRange(s, 1, Len(s))

RECURSIVE SumIntRange(_, _, _)
SumIntRange(s, lo, hi) ==
    IF lo > hi THEN 0
    ELSE IF lo = hi THEN s[lo]
    ELSE LET mid == (lo + hi) \div 2
         IN  SumIntRange(s, lo, mid) + SumIntRange(s, mid + 1, hi)

SumInt(s) == SumIntRange(s, 1, Len(s))

MaxOf(S) == CHOOSE m \in S : \A x \in S : x <= m

\* a tensor once its elements have been written (torch.empty or torch.zeros
\* followed by the filling loop): the sequence of its values
Tensor(f) == f \o <<>>

\* Python slice s[a:b] with 0-based a inclusive, b exclusive, as 1-based a+1..b
Slice(s, lo, hi) == Tensor([i \in 1..Max2(hi - lo + 1, 0) |-> s[lo + i - 1]])

PyInt(n) == [type |-> "int", v |-> n]

PyFloat(n) == [type |-> "float", v |-> n]

(***************************************************************************)
(* Pooling: torch.mean and utils.pytorch.max_magnitude_2d along dim 0.     *)
(***************************************************************************)
TorchMean(group) ==
    LET s == SumRat(group) IN Rat(s.n, s.d * Len(group))

\* torch.max of the values themselves: the largest signed element
max_signed_2d(group) ==
    LET indices == CHOOSE i \in 1..Len(group) :
                       \A j \in 1..Len(group) :
                           group[j].n * group[i].d <= group[i].n * group[j].d
    IN  group[indices]

\* torch.max(abs) returns the index of the first maximal magnitude
max_magnitude_2d(group) ==
    LET indices == CHOOSE i \in 1..Len(group) :
                       \A j \in 1..Len(group) :
                           /\ ~RatAbsGreater(group[j], group[i])
                           /\ j < i => RatAbsGreater(group[i], group[j])
    IN  group[indices]

KnownPool(name) == name \in {"mean", "max"}

\* _get_pool_method(name) applied to a group (name is known here)
Pool(name, group) ==
    IF name = "mean" THEN TorchMean(group) ELSE max_magnitude_2d(group)

\* F.cosine_similarity of two vectors of dimension one
CosineSimilarity(a, b) == Sign(a.n) * Sign(b.n)

(***************************************************************************)
(* TextTiler._calc_gap_scores                                              *)
(***************************************************************************)
CalcGapScores(embeddings, k, pool_method) ==
    LET N == Len(embeddings)
    IN  Tensor([i \in 1..(N - 1) |->
            CosineSimilarity(
                Pool(pool_method, Slice(embeddings, Max2(1, i - k + 1), i)),
                Pool(pool_method, Slice(embeddings, i + 1, Min2(i + k, N))))])

(***************************************************************************)
(* smooth(x, window_len, "flat").  Outcome [raised, y]: y holds the        *)
(* numerators of the result over the denominator den.                      *)
(***************************************************************************)
\* x[window_len:1:-1] reflected about x[0]
LeftPad(x, w) ==
    LET top == Min2(w, Len(x) - 1)      \* Python clips the start index
    IN  Tensor([m \in 1..Max2(top - 1, 0) |-> 2 * x[1] - x[top - m + 2]])

\* x[-1:-window_len:-1] reflected about x[-1]
RightPad(x, w) ==
    Tensor([m \in 1..(w - 1) |-> 2 * x[Len(x)] - x[Len(x) - m + 1]])

\* numpy.convolve(ones(w)/w, s, mode="same") times w, for Len(s) >= w
ConvolveSame(s, w) ==
    LET n1 == Len(s)
        shift == (w - 1) - (w \div 2)
        Full(m) == SumInt([t \in 1..w |->
                       IF m - (t - 1) >= 0 /\ m - (t - 1) < n1
                       THEN s[m - (t - 1) + 1] ELSE 0])
    IN  Tensor([j \in 1..n1 |-> Full(j - 1 + shift)])

smooth(x, window_len) ==
    IF Len(x) < window_len
    THEN [raised |-> "ValueError", y |-> <<>>, den |-> 1]
    ELSE IF window_len < 3
    THEN [raised |-> "none", y |-> x, den |-> 1]
    ELSE LET s == LeftPad(x, window_len) \o x \o RightPad(x, window_len)
             y == ConvolveSame(s, window_len)
         IN  [raised |-> "none",
              y |-> Slice(y, window_len, Len(y) - window_len + 1),
              den |-> window_len]

(***************************************************************************)
(* TextTiler._calc_depth_scores                                            *)
(***************************************************************************)
\* _calc_depth_scores with each peak taken over the scores beside position i
CalcDepthScoresExclusive(gap_scores) ==
    LET N == Len(gap_scores)
    IN  Tensor([i \in 1..N |->
            LET g == gap_scores[i]
                left_peak == IF i = 1 THEN g
                             ELSE MaxOf({gap_scores[j] : j \in 1..(i - 1)})
                right_peak == IF i = N THEN g
                              ELSE MaxOf({gap_scores[j] : j \in (i + 1)..N})
            IN  (left_peak - g) + (right_peak - g)])

CalcDepthScores(gap_scores) ==
    LET N == Len(gap_scores)
    IN  Tensor([i \in 1..N |->
            LET g == gap_scores[i]
                left_peak == MaxOf({gap_scores[j] : j \in 1..i})
                right_peak == MaxOf({gap_scores[j] : j \in i..N})
            IN  (left_peak - g) + (right_peak - g)])

(***************************************************************************)
(* TextTiler._identify_boundaries                                          *)
(***************************************************************************)
KnownPolicy(policy) == policy \in {"average", "high", "low"}

\* depths[i] > cutoff, with avg = S/M and std = sqrt(M*Q - S*S)/M
AboveCutoff(d, depths, policy) ==
    LET M == Len(depths)
        S == SumInt(depths)
        Q == SumInt(Tensor([i \in 1..M |-> depths[i] * depths[i]]))
        V == M * Q - S * S
        diff == M * d - S
    IN  CASE policy = "average" -> diff > 0
          [] policy = "high"    -> diff > 0 /\ diff * diff > V
          [] policy = "low"     -> diff > 0 \/ diff * diff < V

\* _identify_boundaries starting from a tensor of ones
IdentifyBoundariesFromOnes(depths, policy) ==
    Tensor([i \in 1..(Len(depths) + 1) |-> BOUNDARY])

\* _identify_boundaries without the assignment of line 149
IdentifyBoundariesUnforced(depths, policy) ==
    LET M == Len(depths)
        N == M + 1
    IN  Tensor([i \in 1..N |->
            IF i = N THEN 0
            ELSE IF /\ AboveCutoff(depths[i], depths, policy)
                    /\ depths[i] > depths[Max2(1, i - 1)]
                    /\ depths[i] > depths[Min2(i + 1, M)]
                 THEN 1 ELSE 0])

\* _identify_boundaries comparing with >= against the neighbours
IdentifyBoundariesNonStrict(depths, policy) ==
    LET M == Len(depths)
        N == M + 1
    IN  Tensor([i \in 1..N |->
            IF i = N THEN BOUNDARY
            ELSE IF /\ AboveCutoff(depths[i], depths, policy)
                    /\ depths[i] >= depths[Max2(1, i - 1)]
                    /\ depths[i] >= depths[Min2(i + 1, M)]
                 THEN 1 ELSE 0])

IdentifyBoundaries(depths, policy) ==
    LET M == Len(depths)
        N == M + 1
    IN  Tensor([i \in 1..N |->
            IF i = N THEN BOUNDARY
            ELSE IF /\ AboveCutoff(depths[i], depths, policy)
                    /\ depths[i] > depths[Max2(1, i - 1)]
                    /\ depths[i] > depths[Min2(i + 1, M)]
                 THEN 1 ELSE 0])

(***************************************************************************)
(* TextTiler._pool_embedding_groups                                        *)
(***************************************************************************)
\* the positions i in 1..n at which the loop finds boundaries[i] == BOUNDARY
Flagged(boundaries, n) == {i \in 1..n : boundaries[i] = BOUNDARY}

\* the j-th of them, in the order the loop meets them
NthFlag(F, j) == CHOOSE i \in F : Cardinality({x \in F : x <= i}) = j

\* lines 163-168: a group is closed and pooled at every flagged position;
\* it holds the embeddings since the previous flagged position
PoolWalk(embeddings, boundaries, pool_method) ==
    LET F == Flagged(boundaries, Len(embeddings))
    IN  Tensor([j \in 1..Cardinality(F) |->
            Pool(pool_method,
                 SubSeq(embeddings,
                        IF j = 1 THEN 1 ELSE NthFlag(F, j - 1) + 1,
                        NthFlag(F, j)))])

\* boundaries[i] is read for every i < N: a shorter tensor raises IndexError
PoolEmbeddingGroups(embeddings, boundaries, pool_method) ==
    IF Len(boundaries) < Len(embeddings)
    THEN [raised |-> "IndexError", pooled |-> <<>>]
    ELSE [raised |-> "none",
          pooled |-> PoolWalk(embeddings, boundaries, pool_method)]

(***************************************************************************)
(* find_missing_dict_keys and TextTilerConfigManager.  check_valid_config  *)
(* returns None or the first error message; NoneValue stands for None.     *)
(***************************************************************************)
NoneValue == "None"

find_missing_dict_keys(data, required_keys) == required_keys \ DOMAIN data

\* check_valid_k without its isinstance test
check_valid_k_untyped(k) ==
    IF k.v < 2 THEN "Invalid k value" ELSE NoneValue

check_valid_k(k) ==
    IF k.type # "int" \/ k.v < 2 THEN "Invalid k value" ELSE NoneValue

check_valid_pool_method(method) ==
    IF method \notin {"mean", "max"} THEN "Invalid pool_method" ELSE NoneValue

check_valid_smoothing_width(width) ==
    IF width.type # "int" \/ width.v < 3
    THEN "Invalid smoothing_width" ELSE NoneValue

check_valid_cutoff_policy(policy) ==
    IF policy \notin {"average", "low", "high"}
    THEN "Invalid cutoff_policy" ELSE NoneValue

\* the first message that is not None, in the order the checkers dict is walked
FirstError(results) ==
    IF \A i \in 1..Len(results) : results[i] = NoneValue THEN NoneValue
    ELSE results[CHOOSE i \in 1..Len(results) :
                    /\ results[i] # NoneValue
                    /\ \A j \in 1..(i - 1) : results[j] = NoneValue]

TextTilerRequired ==
    {"cutoff_policy", "embedding_aggregation_pool_method", "k",
     "smoothing_width", "window_compare_pool_method"}

TextTilerCheckValidConfig(config) ==
    IF find_missing_dict_keys(config, TextTilerRequired) # {}
    THEN "TextTiler missing config settings"
    ELSE FirstError(<<
            check_valid_cutoff_policy(config.cutoff_policy),
            check_valid_pool_method(config.embedding_aggregation_pool_method),
            check_valid_k(config.k),
            check_valid_smoothing_width(config.smoothing_width),
            check_valid_pool_method(config.window_compare_pool_method)>>)

(***************************************************************************)
(* TextTiler.text_tile.  Outcome: raised ("none" or the exception),        *)
(* the returned boundaries and pooled embeddings, and steps, the stages    *)
(* of the algorithm that were entered, in order.                           *)
(***************************************************************************)
TileOutcome(raised, boundaries, pooled, steps) ==
    [raised |-> raised, boundaries |-> boundaries,
     pooled_embeddings |-> pooled, steps |-> steps]

\* lines 74-79 with k left as it was passed
NewKUnreduced(k, N) == k

\* lines 74-79: the window size that is used for N embeddings
NewK(k, N) == IF k >= N THEN Max2(N \div 5, 2) ELSE k

\* lines 81-82: the smoothing width that is used for N embeddings
NewSmoothingWidth(smoothing_width, N) ==
    IF smoothing_width >= N THEN 2 ELSE smoothing_width

\* lines 72-93: the numeric work, once the configuration has been accepted
TextTileCompute(embeddings, k0, wc_pool, ea_pool, smoothing_width0, cutoff_policy) ==
    LET window_compare_pool_method == wc_pool
        embedding_aggregation_pool_method == ea_pool
    IN
    LET N == Len(embeddings)
        k == NewK(k0, N)
        smoothing_width == NewSmoothingWidth(smoothing_width0, N)
    IN  IF ~KnownPool(window_compare_pool_method)
        THEN TileOutcome("TextTilerError", <<>>, <<>>, <<"gap">>)
        ELSE
        LET unsmoothed_scores ==
                CalcGapScores(embeddings, k, window_compare_pool_method)
            smoothed == smooth(unsmoothed_scores, smoothing_width)
        IN  IF smoothed.raised # "none"
            THEN TileOutcome(smoothed.raised, <<>>, <<>>, <<"gap", "smooth">>)
            ELSE
            LET depth_scores == CalcDepthScores(smoothed.y)
            IN  IF ~KnownPolicy(cutoff_policy)
                THEN TileOutcome("TextTilerError", <<>>, <<>>,
                                 <<"gap", "smooth", "depth", "boundaries">>)
                ELSE
                LET boundaries == IdentifyBoundaries(depth_scores, cutoff_policy)
                    all == <<"gap", "smooth", "depth", "boundaries", "pool">>
                IN  IF ~KnownPool(embedding_aggregation_pool_method)
                    THEN TileOutcome("TextTilerError", <<>>, <<>>, all)
                    ELSE
                    LET pooled == PoolEmbeddingGroups(embeddings, boundaries,
                                      embedding_aggregation_pool_method)
                    IN  IF pooled.raised # "none"
                        THEN TileOutcome(pooled.raised, <<>>, <<>>, all)
                        ELSE TileOutcome("none", boundaries, pooled.pooled, all)

\* lines 63-70: assert_valid_config raises ConfigError on an error message
TextTileConfigError(k, wc_pool, ea_pool, smoothing_width, cutoff_policy) ==
    LET window_compare_pool_method == wc_pool
        embedding_aggregation_pool_method == ea_pool
    IN
    TextTilerCheckValidConfig(
        [k |-> k,
         window_compare_pool_method |-> window_compare_pool_method,
         embedding_aggregation_pool_method |-> embedding_aggregation_pool_method,
         smoothing_width |-> smoothing_width,
         cutoff_policy |-> cutoff_policy]) # NoneValue

TextTile(embeddings, k, wc_pool, ea_pool, smoothing_width, cutoff_policy) ==
    LET window_compare_pool_method == wc_pool
        embedding_aggregation_pool_method == ea_pool
    IN
    IF TextTileConfigError(k, window_compare_pool_method,
                           embedding_aggregation_pool_method, smoothing_width,
                           cutoff_policy)
    THEN TileOutcome("ConfigError", <<>>, <<>>, <<>>)
    ELSE TextTileCompute(embeddings, k.v, window_compare_pool_method,
                         embedding_aggregation_pool_method, smoothing_width.v,
                         cutoff_policy)

(***************************************************************************)
(* Specification TileSpec: one call of text_tile on arbitrary arguments.   *)
(***************************************************************************)
EmbeddingValues == {Rat(-1, 1), Rat(1, 1)}

SeqsUpTo(S, n) == UNION {[1..m -> S] : m \in 1..n}

KArgs == {PyInt(1), PyInt(2), PyInt(7), PyFloat(2)}

SmoothingArgs == {PyInt(2), PyInt(3), PyInt(4), PyFloat(3)}

PoolArgs == {"mean", "max", "sum"}

PolicyArgs == {"average", "high", "low", "median"}

NoOutcome == TileOutcome("pending", <<>>, <<>>, <<>>)

\* the parts of the state that a specification does not use stay idle
CmIdle == /\ cm_cfg = <<>>
          /\ cm_out = <<>>
          /\ cm_pc = "idle"

TileIdle == /\ tt_args = <<>>
            /\ tt_out = NoOutcome
            /\ tt_pc = "idle"

SmIdle == /\ sm_args = <<>>
          /\ sm_out = <<>>
          /\ sm_pc = "idle"

RdIdle == /\ rd_args = <<>>
          /\ rd_out = <<>>
          /\ rd_pc = "idle"

StIdle == /\ st_args = <<>>
          /\ st_out = <<>>
          /\ st_pc = "idle"

FcIdle == /\ self = <<>>
          /\ default_final_clips = <<>>
          /\ round_owner = 0
          /\ running = 0
          /\ other = <<>>
          /\ last_boundaries = <<>>
          /\ transcription = <<>>
          /\ sentence_embeddings = <<>>
          /\ final_clips = <<>>
          /\ clips = <<>>
          /\ clip_embeddings = <<>>
          /\ new_clips = <<>>
          /\ tier_idx = 0
          /\ k_idx = 0
          /\ pc = "idle"
          /\ result = <<>>

\* N mutually identical embeddings
Identical(N) == {[i \in 1..N |-> v] : v \in EmbeddingValues}

TileInit ==
    /\ tt_args \in [embeddings : SeqsUpTo(EmbeddingValues, MaxTileLen)
                                     \cup Identical(MidUnits),
                    k : KArgs,
                    window_compare_pool_method : PoolArgs,
                    embedding_aggregation_pool_method : PoolArgs,
                    smoothing_width : SmoothingArgs,
                    cutoff_policy : PolicyArgs]
    /\ tt_out = NoOutcome
    /\ tt_pc = "call"
    /\ CmIdle
    /\ SmIdle
    /\ RdIdle
    /\ FcIdle
    /\ StIdle

TextTileCall ==
    /\ tt_pc = "call"
    /\ tt_out' = TextTile(tt_args.embeddings, tt_args.k,
                          tt_args.window_compare_pool_method,
                          tt_args.embedding_aggregation_pool_method,
                          tt_args.smoothing_width, tt_args.cutoff_policy)
    /\ tt_pc' = "returned"
    /\ UNCHANGED <<tt_args, cm_vars, sm_vars, rd_vars, fc_vars, st_vars>>

TileNext == TextTileCall

TileSpec == TileInit /\ [][TileNext]_vars

(***************************************************************************)
(* Specification SmoothSpec: one call of smooth on a score vector.         *)
(***************************************************************************)
MaxScoreLen == 5        \* longest score vector handed to smooth alone

MaxWidth == 5           \* widest smoothing window handed to it

\* cosine similarities of vectors of dimension one
ScoreValues == {-1, 0, 1}

SmoothInit ==
    /\ sm_args \in [x : UNION {[1..m -> ScoreValues] : m \in 0..MaxScoreLen},
                     window_len : 1..MaxWidth]
    /\ sm_out = <<>>
    /\ sm_pc = "call"
    /\ TileIdle
    /\ CmIdle
    /\ RdIdle
    /\ FcIdle
    /\ StIdle

\* smooth(x, window_len=window_len, window="flat")
SmoothCall ==
    /\ sm_pc = "call"
    /\ sm_out' = smooth(sm_args.x, sm_args.window_len)
    /\ sm_pc' = "returned"
    /\ UNCHANGED <<sm_args, tile_vars, cm_vars, rd_vars, fc_vars, st_vars>>

SmoothNext == SmoothCall

SmoothSpec == SmoothInit /\ [][SmoothNext]_vars

(***************************************************************************)
(* Specification StageSpec: one call of a single stage of text_tile, or of *)
(* the "max" pooling function, on the arguments text_tile can hand it.     *)
(***************************************************************************)
MaxGroupLen == 3        \* most rows of a tensor handed to max_magnitude_2d

\* the smoothed gap scores handed to _calc_depth_scores
GapScoreVectors == UNION {[1..m -> ScoreValues] : m \in 1..MaxScoreLen}

\* the depth scores handed to _identify_boundaries
DepthVectors == {CalcDepthScores(g) : g \in GapScoreVectors}

\* the columns of a group of embeddings handed to the pooling function
MagnitudeValues == {Rat(2, 1), Rat(-5, 1), Rat(3, 1), Rat(5, 1)}

StageInit ==
    /\ st_args \in
           [stage : {"_calc_depth_scores"}, gap_scores : GapScoreVectors]
           \cup [stage : {"_identify_boundaries"}, depths : DepthVectors,
                 policy : {"average", "high", "low"}]
           \cup [stage : {"max_magnitude_2d"},
                 tensor : SeqsUpTo(MagnitudeValues, MaxGroupLen)]
    /\ st_out = <<>>
    /\ st_pc = "call"
    /\ TileIdle
    /\ CmIdle
    /\ SmIdle
    /\ RdIdle
    /\ FcIdle

\* depth_scores = self._calc_depth_scores(smoothed_scores)
CalcDepthScoresCall ==
    /\ st_pc = "call"
    /\ st_args.stage = "_calc_depth_scores"
    /\ st_out' = CalcDepthScores(st_args.gap_scores)
    /\ st_pc' = "returned"
    /\ UNCHANGED <<st_args, tile_vars, cm_vars, sm_vars, rd_vars, fc_vars>>

\* boundaries = self._identify_boundaries(depth_scores, cutoff_policy)
IdentifyBoundariesCall ==
    /\ st_pc = "call"
    /\ st_args.stage = "_identify_boundaries"
    /\ st_out' = IdentifyBoundaries(st_args.depths, st_args.policy)
    /\ st_pc' = "returned"
    /\ UNCHANGED <<st_args, tile_vars, cm_vars, sm_vars, rd_vars, fc_vars>>

\* pool(group_tensor, dim=0) with pool = self._get_pool_method("max")
MaxMagnitude2dCall ==
    /\ st_pc = "call"
    /\ st_args.stage = "max_magnitude_2d"
    /\ st_out' = Pool("max", st_args.tensor)
    /\ st_pc' = "returned"
    /\ UNCHANGED <<st_args, tile_vars, cm_vars, sm_vars, rd_vars, fc_vars>>

StageNext == CalcDepthScoresCall \/ IdentifyBoundariesCall \/ MaxMagnitude2dCall

StageSpec == StageInit /\ [][StageNext]_vars

(***************************************************************************)
(* ClipFinderConfigManager (a TextTilerConfigManager) and                  *)
(* ClipFinder.__init__.  A call's outcome is [raised, value].              *)
(***************************************************************************)
Outcome(raised, value) == [raised |-> raised, value |-> value]

\* the check_valid_* methods that the class and its bases define
ClipFinderConfigManagerAttrs ==
    {"check_valid_config", "check_valid_clip_times", "check_valid_k",
     "check_valid_pool_method", "check_valid_smoothing_width",
     "check_valid_cutoff_policy"}

\* the methods named while the validators dict is built (lines 249-254)
ClipFinderValidatorRefs ==
    {"check_valid_cutoff_policy",
     "check_valid_embedding_aggregation_pool_method",
     "check_valid_smoothing_width",
     "check_valid_window_compare_pool_method"}

\* check_valid_clip_times letting a maximum equal to the minimum through
check_valid_clip_times_equal_ok(min_dur, max_dur) ==
    IF min_dur.v < 0 THEN "min_clip_duration must be >= 0"
    ELSE IF max_dur.v < min_dur.v
    THEN "max_clip_duration must be greater than min_clip_duration"
    ELSE NoneValue

\* ClipFinderConfigManager.check_valid_clip_times: the two check_type results
\* are dropped, then the bounds are compared
check_valid_clip_times(min_dur, max_dur) ==
    IF min_dur.v < 0 THEN "min_clip_duration must be >= 0"
    ELSE IF max_dur.v <= min_dur.v
    THEN "max_clip_duration must be greater than min_clip_duration"
    ELSE NoneValue

ClipFinderRequired ==
    {"cutoff_policy", "embedding_aggregation_pool_method", "max_clip_duration",
     "min_clip_duration", "smoothing_width", "window_compare_pool_method"}

ClipFinderCheckValidConfig(cfg) ==
    IF find_missing_dict_keys(cfg, ClipFinderRequired) # {}
    THEN Outcome("none", "Missing config values")
    ELSE LET err == check_valid_clip_times(cfg.min_clip_duration,
                                           cfg.max_clip_duration)
         IN  IF err # NoneValue THEN Outcome("none", err)
             ELSE IF ~(ClipFinderValidatorRefs \subseteq ClipFinderConfigManagerAttrs)
             THEN Outcome("AttributeError", NoneValue)
             ELSE Outcome("none", FirstError(<<
                     check_valid_cutoff_policy(cfg.cutoff_policy),
                     check_valid_pool_method(cfg.embedding_aggregation_pool_method),
                     check_valid_smoothing_width(cfg.smoothing_width),
                     check_valid_pool_method(cfg.window_compare_pool_method)>>))

\* ConfigManager.assert_valid_config, then the field assignments of __init__
ClipFinderConstruct(cfg) ==
    LET checked == ClipFinderCheckValidConfig(cfg)
    IN  IF checked.raised # "none" THEN Outcome(checked.raised, NoneValue)
        ELSE IF checked.value # NoneValue THEN Outcome("ConfigError", NoneValue)
        ELSE Outcome("none",
                [_cutoff_policy |-> cfg.cutoff_policy,
                 _embedding_aggregation_pool_method |->
                     cfg.embedding_aggregation_pool_method,
                 _min_clip_duration |-> cfg.min_clip_duration.v,
                 _max_clip_duration |-> cfg.max_clip_duration.v,
                 _smoothing_width |-> cfg.smoothing_width.v,
                 _window_compare_pool_method |-> cfg.window_compare_pool_method])

(***************************************************************************)
(* Specification ConfigSpec: one configuration dictionary, handed to       *)
(* check_valid_config of either manager or to ClipFinder.__init__.         *)
(***************************************************************************)
DurationArgs == {PyInt(-5), PyInt(0), PyInt(5), PyInt(15), PyInt(900), PyFloat(15)}

CfgPolicyArgs == {"high", "average", "invalid_policy"}

CfgPoolArgs == {"mean", "max", "invalid_method"}

CfgWidthArgs == {PyInt(1), PyInt(3), PyFloat(3)}

CfgKArgs == {PyInt(1), PyInt(5), PyFloat(5)}

Restrict(f, keys) == [key \in keys |-> f[key]]

ClipFinderConfigs ==
    {Restrict(full, ClipFinderRequired \ missing) :
        full \in [cutoff_policy : CfgPolicyArgs,
                  embedding_aggregation_pool_method : CfgPoolArgs,
                  max_clip_duration : DurationArgs,
                  min_clip_duration : DurationArgs,
                  smoothing_width : CfgWidthArgs,
                  window_compare_pool_method : CfgPoolArgs],
        missing \in {{}, {"max_clip_duration"}, {"cutoff_policy"}}}

TextTilerConfigs ==
    {Restrict(full, TextTilerRequired \ missing) :
        full \in [cutoff_policy : CfgPolicyArgs,
                  embedding_aggregation_pool_method : CfgPoolArgs,
                  k : CfgKArgs,
                  smoothing_width : CfgWidthArgs,
                  window_compare_pool_method : CfgPoolArgs],
        missing \in {{}, {"k"}, {"smoothing_width"}}}

ConfigInit ==
    /\ \/ /\ cm_cfg \in [manager : {"ClipFinderConfigManager"},
                         config : ClipFinderConfigs]
       \/ /\ cm_cfg \in [manager : {"TextTilerConfigManager"},
                         config : TextTilerConfigs]
    /\ cm_out = Outcome("pending", NoneValue)
    /\ cm_pc = "call"
    /\ TileIdle
    /\ SmIdle
    /\ RdIdle
    /\ FcIdle
    /\ StIdle

\* manager.check_valid_config(config)
CheckValidConfig ==
    /\ cm_pc = "call"
    /\ cm_out' = IF cm_cfg.manager = "ClipFinderConfigManager"
                 THEN ClipFinderCheckValidConfig(cm_cfg.config)
                 ELSE Outcome("none", TextTilerCheckValidConfig(cm_cfg.config))
    /\ cm_pc' = "checked"
    /\ UNCHANGED <<cm_cfg, tile_vars, sm_vars, rd_vars, fc_vars, st_vars>>

\* ClipFinder(**config): every parameter of __init__ is given
ConstructClipFinder ==
    /\ cm_pc = "call"
    /\ cm_cfg.manager = "ClipFinderConfigManager"
    /\ DOMAIN cm_cfg.config = ClipFinderRequired
    /\ cm_out' = ClipFinderConstruct(cm_cfg.config)
    /\ cm_pc' = "constructed"
    /\ UNCHANGED <<cm_cfg, tile_vars, sm_vars, rd_vars, fc_vars, st_vars>>

ConfigNext == CheckValidConfig \/ ConstructClipFinder

ConfigSpec == ConfigInit /\ [][ConfigNext]_vars


(***************************************************************************)
(* ClipFinder._is_duplicate and ClipFinder._remove_duplicates              *)
(***************************************************************************)
\* _is_duplicate counting a distance of exactly 15 as a duplicate too
IsDuplicateInclusive(seg, existing) ==
    \E i \in 1..Len(existing) :
        Abs(seg.start_time - existing[i].start_time)
            + Abs(seg.end_time - existing[i].end_time) <= 15

IsDuplicate(seg, existing) ==
    \E i \in 1..Len(existing) :
        Abs(seg.start_time - existing[i].start_time)
            + Abs(seg.end_time - existing[i].end_time) < 15

\* _remove_duplicates without the lower duration bound
RemoveDuplicatesNoMinimum(potential, existing, min_dur, max_dur) ==
    LET Keep(clip) ==
            LET duration == clip.end_time - clip.start_time
            IN  /\ duration <= max_dur
                /\ ~IsDuplicate(clip, existing)
    IN  SelectSeq(potential, Keep)

RemoveDuplicates(potential, existing, min_dur, max_dur) ==
    LET Keep(clip) ==
            LET duration == clip.end_time - clip.start_time
            IN  /\ min_dur <= duration
                /\ duration <= max_dur
                /\ ~IsDuplicate(clip, existing)
    IN  SelectSeq(potential, Keep)

(***************************************************************************)
(* Specification DedupSpec: one call of _remove_duplicates on candidate    *)
(* and accepted lists drawn from the clips below.                          *)
(***************************************************************************)
MaxPotential == 2       \* longest list of candidates handed to the filter

MaxExisting == 2        \* longest list of accepted clips handed to it

TimedClip(start_time, end_time) ==
    [start_time |-> start_time, end_time |-> end_time]

\* durations around both bounds, distances around 15 from (100, 200)
CandidateClips ==
    {TimedClip(0, 10), TimedClip(0, 15), TimedClip(0, 900), TimedClip(0, 901),
     TimedClip(105, 195), TimedClip(105, 210), TimedClip(120, 220)}

AcceptedClips == {TimedClip(100, 200), TimedClip(0, 29)}

DedupInit ==
    /\ rd_args \in [potential : UNION {[1..m -> CandidateClips] : m \in 0..MaxPotential},
                     existing : UNION {[1..m -> AcceptedClips] : m \in 0..MaxExisting},
                     min_dur : {0, 15},
                     max_dur : {900}]
    /\ rd_out = <<>>
    /\ rd_pc = "call"
    /\ TileIdle
    /\ CmIdle
    /\ SmIdle
    /\ FcIdle
    /\ StIdle

\* self._remove_duplicates(potential, existing, min_dur, max_dur): existing is
\* only read (lines 193 and 202)
RemoveDuplicatesCall ==
    /\ rd_pc = "call"
    /\ rd_out' = [results |-> RemoveDuplicates(rd_args.potential, rd_args.existing,
                                  rd_args.min_dur, rd_args.max_dur),
                  existing |-> rd_args.existing]
    /\ rd_pc' = "returned"
    /\ UNCHANGED <<rd_args, tile_vars, cm_vars, sm_vars, fc_vars, st_vars>>

DedupNext == RemoveDuplicatesCall

DedupSpec == DedupInit /\ [][DedupNext]_vars

(***************************************************************************)
(* ClipFinder._text_tile.  Outcome [raised, super_clips, super_embeddings].*)
(***************************************************************************)
RatAbs(x) == [n |-> Abs(x.n), d |-> x.d]

\* the norm of a vector of dimension one
Norm(x) == RatAbs(x)

\* lines 158-174: after a boundary at i the next clip starts at i itself
NextStartIdx(end_idx) == end_idx

\* lines 158-174 without the clip that the last flagged position closes
BuildSuperClipsWithoutLast(cl, boundaries, new_embeddings) ==
    LET F == Flagged(boundaries, Len(cl))
    IN  Tensor([super_idx \in 1..(Cardinality(F) - 1) |->
            LET end_idx == NthFlag(F, super_idx)
                start_idx == IF super_idx = 1 THEN 1
                             ELSE NextStartIdx(NthFlag(F, super_idx - 1))
            IN  [start_char |-> cl[start_idx].start_char,
                 end_char |-> cl[end_idx].end_char,
                 start_time |-> cl[start_idx].start_time,
                 end_time |-> cl[end_idx].end_time,
                 norm |-> Norm(new_embeddings[super_idx])]])

\* lines 158-174: one combined clip per flagged position, from start_idx as
\* the previous flagged position left it (0-based 0 at first) to that position
BuildSuperClips(cl, boundaries, new_embeddings) ==
    LET F == Flagged(boundaries, Len(cl))
    IN  Tensor([super_idx \in 1..Cardinality(F) |->
            LET end_idx == NthFlag(F, super_idx)
                start_idx == IF super_idx = 1 THEN 1
                             ELSE NextStartIdx(NthFlag(F, super_idx - 1))
            IN  [start_char |-> cl[start_idx].start_char,
                 end_char |-> cl[end_idx].end_char,
                 start_time |-> cl[start_idx].start_time,
                 end_time |-> cl[end_idx].end_time,
                 norm |-> Norm(new_embeddings[super_idx])]])

TileRound(raised, super_clips, super_embeddings, flags) ==
    [raised |-> raised, super_clips |-> super_clips,
     super_embeddings |-> super_embeddings, boundaries |-> flags]

\* line 141: the lengths of the two working sequences differ
ShapeMismatch(cl, emb) == Len(emb) # Len(cl)

\* line 147: k = min(k, max(3, len(clip_embeddings)))
ClampK(k, n) == Min2(k, Max2(3, n))

TextTileClips(me, cl, emb, k0) ==
    IF ShapeMismatch(cl, emb)
    THEN TileRound("ClipFinderError", <<>>, <<>>, <<>>)
    ELSE LET k == ClampK(k0, Len(emb))
             tiled == TextTile(emb, PyInt(k),
                          me._window_compare_pool_method,
                          me._embedding_aggregation_pool_method,
                          PyInt(me._smoothing_width),
                          me._cutoff_policy)
         IN  IF tiled.raised # "none"
             THEN TileRound(tiled.raised, <<>>, <<>>, <<>>)
             ELSE TileRound("none",
                      BuildSuperClips(cl, tiled.boundaries,
                          tiled.pooled_embeddings),
                      tiled.pooled_embeddings,
                      tiled.boundaries)

(***************************************************************************)
(* ClipFinder.find_clips and _text_tile_multiple_rounds, one step per      *)
(* iteration of the while loop of line 115.                                *)
(***************************************************************************)
\* line 82: the window sizes of each tier and the tier's minimum duration
Tiers(me) ==
    <<[k_vals |-> <<5, 7>>, min_sec |-> me._min_clip_duration],
      [k_vals |-> <<11, 17>>, min_sec |-> 180],
      [k_vals |-> <<37, 53, 73, 97>>, min_sec |-> 600]>>

CurrentTier == Tiers(self)[tier_idx]

CurrentK == CurrentTier.k_vals[k_idx]

\* the seed test with a strict comparison
SeedAppliesStrictly(me, tr) == tr.end_time < me._max_clip_duration

\* line 73: the whole transcript is a candidate of its own
SeedApplies(me, tr) == tr.end_time <= me._max_clip_duration

SeedClip(tr) ==
    [start_char |-> 0, end_char |-> tr.num_chars,
     start_time |-> 0, end_time |-> tr.end_time, norm |-> Rat(1, 1)]

\* lines 93-100
MediaSegment(clip) ==
    [begin_sec |-> clip.start_time, finish_sec |-> clip.end_time,
     text_start_idx |-> clip.start_char, text_end_idx |-> clip.end_char]

MediaSegments(cl) == Tensor([i \in 1..Len(cl) |-> MediaSegment(cl[i])])

\* line 109 with the call of lines 84-91: the list object that the parameter
\* final_clips is bound to, the caller's or the default of the signature
BindFinalClipsToDefault(argument) == "default"

BindFinalClips(argument) == IF argument = "omitted" THEN "default" ELSE argument

\* find_clips hands over its own list clips, whose content is passed
EntryFinalClips(passed) ==
    IF BindFinalClips("clips") = "default" THEN default_final_clips ELSE passed

\* line 126 with the list in front
AccumulateInFront(final, new) == new \o final

\* line 126: final_clips += new_clips
Accumulate(final, new) == final \o new

\* lines 84-86 handing over the clips the previous window size coarsened
EntryClipsCoarsened(sentences_info, coarsened) == coarsened

\* lines 84-86: every window size is handed the sentences of the transcript
EntryClips(sentences_info, coarsened) == sentences_info

\* line 115 with the loop running down to 8 embeddings
LoopContinuesAtEight(emb) == Len(emb) >= 8

\* line 115: while len(clip_embeddings) > 8
LoopContinues(emb) == Len(emb) > 8

\* lines 72-84: seed, then enter _text_tile_multiple_rounds for k = 5
FindClipsStart ==
    /\ pc = "start"
    /\ final_clips' = EntryFinalClips(IF SeedApplies(self, transcription)
                                      THEN <<SeedClip(transcription)>> ELSE <<>>)
    /\ tier_idx' = 1
    /\ k_idx' = 1
    /\ clips' = transcription.sentences
    /\ clip_embeddings' = sentence_embeddings
    /\ new_clips' = <<>>
    /\ last_boundaries' = <<>>
    /\ self' = [self EXCEPT !._text_tile_round = 0]
    /\ round_owner' = running
    /\ pc' = "rounds"
    /\ UNCHANGED <<transcription, sentence_embeddings, result,
                   default_final_clips, sched_vars,
                   tile_vars, cm_vars, sm_vars, rd_vars, st_vars>>

\* lines 115-128: one iteration of the while loop
Round ==
    /\ pc = "rounds"
    /\ LoopContinues(clip_embeddings)
    /\ LET tiled == TextTileClips(self, clips, clip_embeddings, CurrentK)
       IN  /\ self' = [self EXCEPT !._text_tile_round = @ + 1]
           /\ round_owner' = running
           /\ IF tiled.raised # "none"
              THEN /\ pc' = "raised"
                   /\ result' = Outcome(tiled.raised, <<>>)
                   /\ UNCHANGED <<final_clips, clips, clip_embeddings, new_clips,
                                  last_boundaries, default_final_clips>>
              ELSE /\ new_clips' =
                          RemoveDuplicates(tiled.super_clips, final_clips,
                              CurrentTier.min_sec, self._max_clip_duration)
                   /\ final_clips' = Accumulate(final_clips, new_clips')
                   /\ default_final_clips' =
                          IF BindFinalClips("clips") = "default"
                          THEN final_clips' ELSE default_final_clips
                   /\ clips' = tiled.super_clips
                   /\ clip_embeddings' = tiled.super_embeddings
                   /\ last_boundaries' = tiled.boundaries
                   /\ UNCHANGED <<pc, result>>
    /\ UNCHANGED <<transcription, sentence_embeddings, tier_idx, k_idx,
                   sched_vars, tile_vars, cm_vars, sm_vars, rd_vars, st_vars>>

\* lines 130 and 83-84: the loop ends, the next window size starts from the
\* sentences again
NextWindow ==
    /\ pc = "rounds"
    /\ ~LoopContinues(clip_embeddings)
    /\ ~(tier_idx = Len(Tiers(self)) /\ k_idx = Len(CurrentTier.k_vals))
    /\ IF k_idx < Len(CurrentTier.k_vals)
       THEN k_idx' = k_idx + 1 /\ tier_idx' = tier_idx
       ELSE k_idx' = 1 /\ tier_idx' = tier_idx + 1
    /\ final_clips' = EntryFinalClips(final_clips)
    /\ clips' = EntryClips(transcription.sentences, clips)
    /\ clip_embeddings' = sentence_embeddings
    /\ new_clips' = <<>>
    /\ last_boundaries' = <<>>
    /\ self' = [self EXCEPT !._text_tile_round = 0]
    /\ round_owner' = running
    /\ UNCHANGED <<transcription, sentence_embeddings, pc, result,
                   default_final_clips, sched_vars,
                   tile_vars, cm_vars, sm_vars, rd_vars, st_vars>>

\* lines 93-100: after the last window size the segments are returned
FindClipsReturn ==
    /\ pc = "rounds"
    /\ ~LoopContinues(clip_embeddings)
    /\ tier_idx = Len(Tiers(self))
    /\ k_idx = Len(CurrentTier.k_vals)
    /\ result' = Outcome("none", MediaSegments(final_clips))
    /\ pc' = "returned"
    /\ UNCHANGED <<shared_vars, sched_vars, transcription, sentence_embeddings,
                   final_clips, clips, clip_embeddings, new_clips, last_boundaries,
                   tier_idx, k_idx, tile_vars, cm_vars, sm_vars, rd_vars, st_vars>>

Next == FindClipsStart \/ Round \/ NextWindow \/ FindClipsReturn


(***************************************************************************)
(* Specification Spec: one find_clips call.  The ClipFinder holds the      *)
(* fields that lines 55-60 assign from a configuration the documented      *)
(* rules accept; the transcript and the embeddings are drawn from the      *)
(* families below.                                                         *)
(***************************************************************************)
\* sentences of the transcript: a short one, a middle one, a long one
UnitCounts == {SmallUnits, MidUnits, MaxUnits}

\* topics of P sentences each, alternating in sign, S sentences into a topic
BlockPattern(N, P, S) ==
    [i \in 1..N |-> Rat(IF ((i - 1 + S) \div P) % 2 = 0 THEN 1 ELSE -1, 1)]

\* sentence pairs of opposite sign after an opening sentence; pair a is
\* the other way round
PairPattern(N, a) ==
    [i \in 1..N |->
        IF i = 1 \/ (i = N /\ (i - 2) % 2 = 0) THEN Rat(1, 1)
        ELSE LET j == (i - 2) \div 2
                 first == IF j + 1 = a THEN 1 ELSE -1
             IN  Rat(IF (i - 2) % 2 = 0 THEN first ELSE -first, 1)]

EmbeddingShapes(N) ==
    {BlockPattern(N, P, S) : P \in 1..MaxBlock, S \in 0..(MaxBlock - 1)}
        \cup {PairPattern(N, a) : a \in 1..MaxFlip}

\* every sentence lasts unit_sec seconds, but sentence long_at, if any, 20
UnitDuration(i, unit_sec, long_at) == IF i = long_at THEN 20 ELSE unit_sec

\* the durations of the sentences before sentence i, added up
StartOf(i, unit_sec, long_at) ==
    (i - 1) * unit_sec
        + (IF long_at \in 1..(i - 1)
           THEN UnitDuration(long_at, unit_sec, long_at) - unit_sec ELSE 0)

\* get_sentence_info(): contiguous sentences of 10 characters each
Sentences(N, unit_sec, long_at) ==
    [i \in 1..N |->
        [start_char |-> (i - 1) * 10,
         end_char |-> i * 10,
         start_time |-> StartOf(i, unit_sec, long_at),
         end_time |-> StartOf(i, unit_sec, long_at)
                        + UnitDuration(i, unit_sec, long_at)]]

\* slow speech throughout, or fast speech around one long sentence
Timings ==
    {[unit_sec |-> 100, long_at |-> 0], [unit_sec |-> 1, long_at |-> 8]}

Transcriptions ==
    {[sentences |-> Sentences(N, t.unit_sec, t.long_at),
      end_time |-> StartOf(N + 1, t.unit_sec, t.long_at),
      num_chars |-> N * 10] :
        N \in UnitCounts, t \in Timings}

ClipFinders ==
    [_cutoff_policy : {"average", "high", "low"},
     _embedding_aggregation_pool_method : {"mean", "max"},
     _window_compare_pool_method : {"mean", "max"},
     _min_clip_duration : {0, 15},
     _max_clip_duration : {900},
     _smoothing_width : {3, 8, 30},
     _text_tile_round : {0}]

\* no second call: running is call 1 throughout
NoOtherCall == [pc |-> "idle"]

Init ==
    /\ self \in ClipFinders
    /\ default_final_clips = <<>>
    /\ round_owner = 0
    /\ running = 1
    /\ other = NoOtherCall
    /\ last_boundaries = <<>>
    /\ transcription \in Transcriptions
    /\ \E shape \in EmbeddingShapes(Len(transcription.sentences)),
          dropped \in {0, 1} :
            sentence_embeddings = SubSeq(shape, 1, Len(shape) - dropped)
    /\ final_clips = <<>>
    /\ clips = <<>>
    /\ clip_embeddings = <<>>
    /\ new_clips = <<>>
    /\ tier_idx = 0
    /\ k_idx = 0
    /\ pc = "start"
    /\ result = Outcome("pending", <<>>)
    /\ TileIdle
    /\ CmIdle
    /\ SmIdle
    /\ RdIdle
    /\ StIdle

Spec == Init /\ [][Next]_vars

\* find_clips is straight-line code: it keeps running until it returns or
\* raises.  Weak fairness of the loop steps is written with its enabling
\* condition spelled out: while pc = "rounds" exactly one of the guards of
\* Round, NextWindow and FindClipsReturn holds, and each is a total assignment.
LoopStep == Round \/ NextWindow \/ FindClipsReturn

FairSpec ==
    /\ Spec
    /\ WF_vars(FindClipsStart)
    /\ ([]<>(pc # "rounds") \/ []<><<LoopStep>>_vars)

(***************************************************************************)
(* Specification BurstSpec: one find_clips call on a transcript whose      *)
(* sentences after the first carry one and the same timestamp (start_time  *)
(* = end_time), as an aligner leaves them when it cannot place the words.  *)
(***************************************************************************)
BurstTimings == {[unit_sec |-> 0, long_at |-> 1]}

BurstTranscriptions ==
    {[sentences |-> Sentences(N, t.unit_sec, t.long_at),
      end_time |-> StartOf(N + 1, t.unit_sec, t.long_at),
      num_chars |-> N * 10] :
        N \in {MidUnits, MaxUnits}, t \in BurstTimings}

BurstInit ==
    /\ self \in {f \in ClipFinders : f._smoothing_width = 3}
    /\ default_final_clips = <<>>
    /\ round_owner = 0
    /\ running = 1
    /\ other = NoOtherCall
    /\ last_boundaries = <<>>
    /\ transcription \in BurstTranscriptions
    /\ sentence_embeddings \in EmbeddingShapes(Len(transcription.sentences))
    /\ final_clips = <<>>
    /\ clips = <<>>
    /\ clip_embeddings = <<>>
    /\ new_clips = <<>>
    /\ tier_idx = 0
    /\ k_idx = 0
    /\ pc = "start"
    /\ result = Outcome("pending", <<>>)
    /\ TileIdle
    /\ CmIdle
    /\ SmIdle
    /\ RdIdle
    /\ StIdle

BurstSpec == BurstInit /\ [][Next]_vars

(***************************************************************************)
(* Specification ShortSpec: one find_clips call on a transcript of about   *)
(* as many sentences as the loop of _text_tile_multiple_rounds asks for,   *)
(* spoken within max_clip_duration or not.                                 *)
(***************************************************************************)
\* line 115: the length that the loop must exceed to run a round
LoopThreshold == 8

ShortTimings ==
    {[unit_sec |-> 100, long_at |-> 0], [unit_sec |-> 300, long_at |-> 0]}

ShortTranscriptions ==
    {[sentences |-> Sentences(N, t.unit_sec, t.long_at),
      end_time |-> StartOf(N + 1, t.unit_sec, t.long_at),
      num_chars |-> N * 10] :
        N \in {SmallUnits, LoopThreshold, MidUnits}, t \in ShortTimings}

ShortInit ==
    /\ self \in {f \in ClipFinders : f._smoothing_width = 3}
    /\ default_final_clips = <<>>
    /\ round_owner = 0
    /\ running = 1
    /\ other = NoOtherCall
    /\ last_boundaries = <<>>
    /\ transcription \in ShortTranscriptions
    /\ \E shape \in EmbeddingShapes(Len(transcription.sentences)),
          dropped \in {0, 1} :
            sentence_embeddings = SubSeq(shape, 1, Len(shape) - dropped)
    /\ final_clips = <<>>
    /\ clips = <<>>
    /\ clip_embeddings = <<>>
    /\ new_clips = <<>>
    /\ tier_idx = 0
    /\ k_idx = 0
    /\ pc = "start"
    /\ result = Outcome("pending", <<>>)
    /\ TileIdle
    /\ CmIdle
    /\ SmIdle
    /\ RdIdle
    /\ StIdle

ShortSpec == ShortInit /\ [][Next]_vars

(***************************************************************************)
(* Specification TwoRunsSpec: two find_clips calls on one ClipFinder.      *)
(* The variables of a call hold the locals of the call that is running;    *)
(* a context switch parks them in other and loads the other call's.  The   *)
(* second call may start after the first has ended or at any point of it.  *)
(* Only self and the default of final_clips belong to both.                *)
(***************************************************************************)
Locals ==
    [transcription |-> transcription,
     sentence_embeddings |-> sentence_embeddings,
     final_clips |-> final_clips,
     clips |-> clips,
     clip_embeddings |-> clip_embeddings,
     new_clips |-> new_clips,
     last_boundaries |-> last_boundaries,
     tier_idx |-> tier_idx,
     k_idx |-> k_idx,
     pc |-> pc,
     result |-> result]

\* the locals of a call that has not executed its first statement
FreshCall(tr, emb) ==
    [transcription |-> tr,
     sentence_embeddings |-> emb,
     final_clips |-> <<>>,
     clips |-> <<>>,
     clip_embeddings |-> <<>>,
     new_clips |-> <<>>,
     last_boundaries |-> <<>>,
     tier_idx |-> 0,
     k_idx |-> 0,
     pc |-> "start",
     result |-> Outcome("pending", <<>>)]

\* transcripts with more than 8 sentences, topics of two sentences
CallInputs ==
    {FreshCall(tr, BlockPattern(Len(tr.sentences), 2, 0)) :
        tr \in {t \in Transcriptions : Len(t.sentences) > 8}}

SharedClipFinders ==
    {f \in ClipFinders :
        /\ f._cutoff_policy = "average"
        /\ f._smoothing_width = 3
        /\ f._window_compare_pool_method = "mean"
        /\ f._embedding_aggregation_pool_method = "mean"}

TwoRunsInit ==
    /\ self \in SharedClipFinders
    /\ default_final_clips = <<>>
    /\ round_owner = 0
    /\ running = 1
    /\ other \in CallInputs
    /\ \E first \in CallInputs :
          /\ transcription = first.transcription
          /\ sentence_embeddings = first.sentence_embeddings
          /\ final_clips = first.final_clips
          /\ clips = first.clips
          /\ clip_embeddings = first.clip_embeddings
          /\ new_clips = first.new_clips
          /\ last_boundaries = first.last_boundaries
          /\ tier_idx = first.tier_idx
          /\ k_idx = first.k_idx
          /\ pc = first.pc
          /\ result = first.result
    /\ TileIdle
    /\ CmIdle
    /\ SmIdle
    /\ RdIdle
    /\ StIdle

\* the running call is suspended between two of its steps, the other resumes
ContextSwitch ==
    /\ other.pc \in {"start", "rounds"}
    /\ other' = Locals
    /\ running' = 3 - running
    /\ transcription' = other.transcription
    /\ sentence_embeddings' = other.sentence_embeddings
    /\ final_clips' = other.final_clips
    /\ clips' = other.clips
    /\ clip_embeddings' = other.clip_embeddings
    /\ new_clips' = other.new_clips
    /\ last_boundaries' = other.last_boundaries
    /\ tier_idx' = other.tier_idx
    /\ k_idx' = other.k_idx
    /\ pc' = other.pc
    /\ result' = other.result
    /\ UNCHANGED <<shared_vars, tile_vars, cm_vars, sm_vars, rd_vars, st_vars>>

TwoRunsNext == Next \/ ContextSwitch

TwoRunsSpec == TwoRunsInit /\ [][TwoRunsNext]_vars

(***************************************************************************)
(* find_clips as the function of its arguments that the code computes when *)
(* nothing else runs: the loops of lines 82-91 and 115-128 unrolled.       *)
(***************************************************************************)
\* line 82: the window sizes in the order of the two for loops
Windows(me) ==
    LET t == Tiers(me)
        W(i) == [w \in 1..Len(t[i].k_vals) |->
                    [k |-> t[i].k_vals[w], min_sec |-> t[i].min_sec]]
    IN  W(1) \o W(2) \o W(3)

RECURSIVE MultipleRounds(_, _, _, _, _, _)
MultipleRounds(me, cl, emb, k, min_sec, final) ==
    IF ~LoopContinues(emb) THEN Outcome("none", final)
    ELSE LET tiled == TextTileClips(me, cl, emb, k)
         IN  IF tiled.raised # "none" THEN Outcome(tiled.raised, <<>>)
             ELSE MultipleRounds(me, tiled.super_clips, tiled.super_embeddings,
                      k, min_sec,
                      Accumulate(final,
                          RemoveDuplicates(tiled.super_clips, final, min_sec,
                                           me._max_clip_duration)))

RECURSIVE AllWindows(_, _, _, _, _)
AllWindows(me, tr, emb, w, final) ==
    IF w > Len(Windows(me)) THEN Outcome("none", MediaSegments(final))
    ELSE LET r == MultipleRounds(me, tr.sentences, emb, Windows(me)[w].k,
                                 Windows(me)[w].min_sec, final)
         IN  IF r.raised # "none" THEN r
             ELSE AllWindows(me, tr, emb, w + 1, r.value)

FindClips(me, tr, emb) ==
    AllWindows(me, tr, emb, 1,
        IF SeedApplies(me, tr) THEN <<SeedClip(tr)>> ELSE <<>>)

(***************************************************************************)
(* Properties of text_tile (TileSpec).                                     *)
(***************************************************************************)
\* the arguments are a valid configuration in the sense of the documentation
TileArgsValid ==
    /\ tt_args.k.type = "int" /\ tt_args.k.v >= 2
    /\ tt_args.smoothing_width.type = "int" /\ tt_args.smoothing_width.v >= 3
    /\ tt_args.window_compare_pool_method \in {"mean", "max"}
    /\ tt_args.embedding_aggregation_pool_method \in {"mean", "max"}
    /\ tt_args.cutoff_policy \in {"average", "low", "high"}

CountFlags(boundaries) ==
    Cardinality({i \in 1..Len(boundaries) : boundaries[i] = BOUNDARY})

\* C3: for every valid configuration and every sequence of N >= 1 embeddings,
\* text_tile returns a flag list of length exactly N whose last flag is set.
C3_FlagsHaveLengthN ==
    (tt_pc = "returned" /\ TileArgsValid) =>
        /\ tt_out.raised = "none"
        /\ Len(tt_out.boundaries) = Len(tt_args.embeddings)
        /\ tt_out.boundaries[Len(tt_args.embeddings)] = BOUNDARY

\* C4: for every valid configuration and every sequence of N >= 1 embeddings,
\* text_tile returns as many pooled embeddings as there are set flags, and at
\* least one.
C4_PooledCountEqualsFlags ==
    (tt_pc = "returned" /\ TileArgsValid) =>
        /\ tt_out.raised = "none"
        /\ Len(tt_out.pooled_embeddings) = CountFlags(tt_out.boundaries)
        /\ Len(tt_out.pooled_embeddings) >= 1

\* the gap scores text_tile computes from its arguments, at least one, all equal
GapsAllEqual ==
    LET N == Len(tt_args.embeddings)
        k == IF tt_args.k.v >= N THEN Max2(N \div 5, 2) ELSE tt_args.k.v
        gaps == CalcGapScores(tt_args.embeddings, k,
                              tt_args.window_compare_pool_method)
    IN  /\ N >= 2
        /\ \A i, j \in 1..(N - 1) : gaps[i] = gaps[j]

\* C18: when all gap scores are equal, text_tile returns the flags
\* [0, ..., 0, 1] and exactly one pooled group, under each cutoff policy.
C18_EqualGapsGiveOneGroup ==
    (tt_pc = "returned" /\ TileArgsValid /\ GapsAllEqual) =>
        /\ tt_out.raised = "none"
        /\ tt_out.boundaries =
              [i \in 1..Len(tt_args.embeddings) |->
                  IF i = Len(tt_args.embeddings) THEN BOUNDARY ELSE 0]
        /\ Len(tt_out.pooled_embeddings) = 1

\* C8: text_tile with an invalid parameter raises the configuration error
\* before any stage of the algorithm is entered, and returns nothing.
C8_InvalidConfigFailsFast ==
    (tt_pc = "returned" /\ ~TileArgsValid) =>
        /\ tt_out.raised = "ConfigError"
        /\ tt_out.steps = <<>>
        /\ tt_out.boundaries = <<>>
        /\ tt_out.pooled_embeddings = <<>>

\* a call whose only invalid argument is a k that is a float was refused
C8_Witness ==
    /\ tt_pc = "returned"
    /\ tt_args.k = PyFloat(2)
    /\ tt_args.smoothing_width = PyInt(3)
    /\ tt_args.window_compare_pool_method = "mean"
    /\ tt_args.embedding_aggregation_pool_method = "max"
    /\ tt_args.cutoff_policy = "high"
    /\ tt_out.raised = "ConfigError"

\* the call went as far as _pool_embedding_groups
PoolStageEntered ==
    /\ tt_pc = "returned"
    /\ TileArgsValid
    /\ Len(tt_out.steps) >= 1
    /\ tt_out.steps[Len(tt_out.steps)] = "pool"

\* the groups are the runs of positions that end at a flagged position and
\* start right after the previous one; the last of them ends at position N
GroupsCoverInOrder ==
    LET embeddings == tt_args.embeddings
        N == Len(embeddings)
        F == {i \in 1..N : tt_out.boundaries[i] = BOUNDARY}
    IN  /\ Len(tt_out.boundaries) = N
        /\ N \in F
        /\ Len(tt_out.pooled_embeddings) = Cardinality(F)
        /\ \A j \in 1..Cardinality(F) :
              LET last == NthFlag(F, j)
                  first == IF j = 1 THEN 1 ELSE NthFlag(F, j - 1) + 1
              IN  /\ first <= last
                  /\ tt_out.pooled_embeddings[j] =
                        Pool(tt_args.embedding_aggregation_pool_method,
                             SubSeq(embeddings, first, last))

\* C26: _pool_embedding_groups partitions the positions 0..N-1 into contiguous
\* groups, each ending at a flagged position and starting right after the
\* previous flagged position: no group is empty, the last group ends at the
\* last position, which is always flagged, and the pooled vectors come in
\* the order of the groups.
C26_GroupsPartitionThePositions ==
    PoolStageEntered => (tt_out.raised = "none" /\ GroupsCoverInOrder)

(***************************************************************************)
(* Properties of the configuration managers (ConfigSpec).                  *)
(***************************************************************************)
IsClipFinderCall ==
    /\ cm_cfg.manager = "ClipFinderConfigManager"
    /\ DOMAIN cm_cfg.config = ClipFinderRequired

Rejected ==
    /\ cm_pc = "checked" => (cm_out.raised = "none" /\ cm_out.value # NoneValue)
    /\ cm_pc = "constructed" => cm_out.raised = "ConfigError"

\* C9 as stated: non-positive or inverted duration bounds are rejected, by an
\* error string from check_valid_config and a configuration error from __init__.
C9_NonPositiveOrInvertedRejected ==
    (/\ cm_pc \in {"checked", "constructed"}
     /\ IsClipFinderCall
     /\ \/ cm_cfg.config.min_clip_duration.v <= 0
        \/ cm_cfg.config.max_clip_duration.v <= 0
        \/ cm_cfg.config.max_clip_duration.v <= cm_cfg.config.min_clip_duration.v)
    => Rejected

\* C9 amended: a negative minimum, or a maximum not above the minimum, is
\* rejected (a minimum of exactly 0 is allowed).
C9_NegativeOrInvertedRejected ==
    (/\ cm_pc \in {"checked", "constructed"}
     /\ IsClipFinderCall
     /\ \/ cm_cfg.config.min_clip_duration.v < 0
        \/ cm_cfg.config.max_clip_duration.v <= cm_cfg.config.min_clip_duration.v)
    => Rejected

\* constructing a ClipFinder with max = min = 15 raised the configuration error
C9_Witness ==
    /\ cm_pc = "constructed"
    /\ IsClipFinderCall
    /\ cm_cfg.config.min_clip_duration = PyInt(15)
    /\ cm_cfg.config.max_clip_duration = PyInt(15)
    /\ cm_out.raised = "ConfigError"

ValidGeneral(config) ==
    /\ config.cutoff_policy \in {"average", "low", "high"}
    /\ config.embedding_aggregation_pool_method \in {"mean", "max"}
    /\ config.window_compare_pool_method \in {"mean", "max"}
    /\ config.smoothing_width.type = "int" /\ config.smoothing_width.v >= 3

ConfigComplete ==
    DOMAIN cm_cfg.config = IF cm_cfg.manager = "ClipFinderConfigManager"
                           THEN ClipFinderRequired ELSE TextTilerRequired

ConfigAllValid ==
    /\ ConfigComplete
    /\ ValidGeneral(cm_cfg.config)
    /\ IF cm_cfg.manager = "ClipFinderConfigManager"
       THEN /\ cm_cfg.config.min_clip_duration.v >= 0
            /\ cm_cfg.config.max_clip_duration.v > cm_cfg.config.min_clip_duration.v
       ELSE cm_cfg.config.k.type = "int" /\ cm_cfg.config.k.v >= 2

\* C10: check_valid_config of either manager returns None for a complete
\* configuration of valid values, and an error string otherwise.
C10_NoneIffValid ==
    cm_pc = "checked" =>
        /\ cm_out.raised = "none"
        /\ (cm_out.value = NoneValue) <=> ConfigAllValid

(***************************************************************************)
(* Properties of find_clips (Spec, FairSpec).                              *)
(***************************************************************************)
ClipDuration(clip) == clip.end_time - clip.start_time

\* C1: no two distinct segments of a returned list are within 15 seconds of
\* each other, begin difference plus finish difference.
C1_ReturnedPairwiseDistinct ==
    (pc = "returned" /\ result.raised = "none") =>
        \A i, j \in 1..Len(result.value) :
            i < j =>
                Abs(result.value[i].begin_sec - result.value[j].begin_sec)
                    + Abs(result.value[i].finish_sec - result.value[j].finish_sec)
                    >= 15

Seeded == transcription.end_time <= self._max_clip_duration

\* the accumulator past the seed, if there is one
TierAccepted == SubSeq(final_clips, IF Seeded THEN 2 ELSE 1, Len(final_clips))

IsSuffix(s, t) ==
    /\ Len(s) <= Len(t)
    /\ SubSeq(t, Len(t) - Len(s) + 1, Len(t)) = s

TierMinimum == IF tier_idx = 1 THEN self._min_clip_duration
               ELSE IF tier_idx = 2 THEN 180 ELSE 600

\* C2: what a round accepts lasts at least the minimum of the tier whose
\* window size is running and at most max_clip_duration; the accumulator, and
\* with it the returned list, holds nothing but the seed and such segments.
C2_AcceptedWithinTierBounds ==
    pc \in {"rounds", "returned"} =>
        /\ \A i \in 1..Len(new_clips) :
              /\ TierMinimum <= ClipDuration(new_clips[i])
              /\ ClipDuration(new_clips[i]) <= self._max_clip_duration
        /\ IsSuffix(new_clips, TierAccepted)
        /\ \A i \in 1..Len(TierAccepted) :
              /\ ClipDuration(TierAccepted[i]) <= self._max_clip_duration
              /\ \/ self._min_clip_duration <= ClipDuration(TierAccepted[i])
                 \/ 180 <= ClipDuration(TierAccepted[i])
        /\ pc = "returned" =>
              result.value = MediaSegments(final_clips)

\* a round of the third tier accepted a segment
C2_Witness ==
    /\ pc = "rounds"
    /\ tier_idx = 3
    /\ self._text_tile_round >= 1
    /\ new_clips # <<>>

C6_SeedIffShortTranscript ==
    /\ pc \in {"rounds", "returned"} =>
          (Seeded <=>
              /\ final_clips # <<>>
              /\ final_clips[1].start_time = 0
              /\ final_clips[1].end_time = transcription.end_time
              /\ final_clips[1].start_char = 0
              /\ final_clips[1].end_char = transcription.num_chars)
    /\ (pc = "rounds" /\ tier_idx = 1 /\ k_idx = 1
            /\ self._text_tile_round = 0 /\ ~Seeded) => final_clips = <<>>
    /\ (pc = "returned" /\ Seeded) =>
          /\ result.raised = "none"
          /\ result.value # <<>>
          /\ result.value[1] =
                [begin_sec |-> 0, finish_sec |-> transcription.end_time,
                 text_start_idx |-> 0,
                 text_end_idx |-> transcription.num_chars]

\* a transcript exactly max_clip_duration long came back with its seed first
\* and tier segments after it
C6_Witness ==
    /\ pc = "returned"
    /\ transcription.end_time = self._max_clip_duration
    /\ Len(result.value) >= 2
    /\ result.value[1].begin_sec = 0
    /\ result.value[1].finish_sec = transcription.end_time

\* C7: a call whose embedding count differs from its sentence count ends with
\* the shape-mismatch error and returns no list.
C7_MismatchAlwaysRaises ==
    (/\ pc \in {"returned", "raised"}
     /\ Len(sentence_embeddings) # Len(transcription.sentences))
    => (pc = "raised" /\ result.raised = "ClipFinderError")

IsPrefix(s, t) ==
    /\ Len(s) <= Len(t)
    /\ SubSeq(t, 1, Len(s)) = s

\* a round that did not raise has just run
RoundStep ==
    /\ pc = "rounds"
    /\ Len(clip_embeddings) > 8
    /\ pc' = "rounds"

\* C12: the accumulator only ever grows by appending: the seed comes first,
\* each round appends what it accepted in the order of the candidates'
\* positions, the window sizes run in the order 5, 7, 11, 17, 37, 53, 73, 97,
\* and the returned list is the accumulator, segment for segment.
C12_AcceptanceOrderKept ==
    /\ [][IsPrefix(final_clips, final_clips')]_vars
    /\ [][RoundStep =>
            /\ final_clips' = final_clips \o new_clips'
            /\ \A a, b \in 1..Len(new_clips') :
                  a < b => \E i, j \in 1..Len(clips') :
                              /\ i < j
                              /\ clips'[i] = new_clips'[a]
                              /\ clips'[j] = new_clips'[b]]_vars
    /\ [][pc = "rounds" =>
            \/ tier_idx' > tier_idx
            \/ tier_idx' = tier_idx /\ k_idx' >= k_idx]_vars
    /\ [](pc \in {"rounds", "returned"} /\ Seeded =>
            final_clips[1] = SeedClip(transcription))
    /\ [](pc = "returned" =>
            /\ Len(result.value) = Len(final_clips)
            /\ \A i \in 1..Len(final_clips) :
                  result.value[i] = MediaSegment(final_clips[i]))

\* a returned list that is not in temporal order: a segment accepted later
\* begins before one accepted earlier
C12_Witness ==
    /\ pc = "returned"
    /\ \E i, j \in 2..Len(result.value) :
          /\ i < j
          /\ result.value[j].begin_sec < result.value[i].begin_sec

\* C13: no two segments of a returned list overlap in time.
C13_ReturnedNonOverlapping ==
    (pc = "returned" /\ result.raised = "none") =>
        \A i, j \in 1..Len(result.value) :
            i < j =>
                \/ result.value[i].finish_sec <= result.value[j].begin_sec
                \/ result.value[j].finish_sec <= result.value[i].begin_sec

\* C19: in each round the j-th candidate starts where the first unit of the
\* j-th boundary group starts and ends where its last unit ends, in characters
\* and in time; the j-th group runs from just after the previous flagged
\* position to the j-th flagged position, and it is the group whose embeddings
\* are pooled into the j-th pooled vector, the norm of which is the candidate's.
C19_CandidateSpansItsGroup ==
    [][RoundStep =>
        LET F == Flagged(last_boundaries', Len(clips))
        IN  /\ Len(clips') = Cardinality(F)
            /\ Len(clip_embeddings') = Cardinality(F)
            /\ \A j \in 1..Len(clips') :
                  LET first == IF j = 1 THEN 1 ELSE NthFlag(F, j - 1) + 1
                      last == NthFlag(F, j)
                  IN  /\ clips'[j].start_char = clips[first].start_char
                      /\ clips'[j].start_time = clips[first].start_time
                      /\ clips'[j].end_char = clips[last].end_char
                      /\ clips'[j].end_time = clips[last].end_time
                      /\ clip_embeddings'[j] =
                             Pool(self._embedding_aggregation_pool_method,
                                  SubSeq(clip_embeddings, first, last))
                      /\ clips'[j].norm = Norm(clip_embeddings'[j])]_vars

\* C16: every returned segment other than the whole-transcript seed begins
\* before it finishes and has text_start_idx <= text_end_idx, whenever
\* 0 <= min_clip_duration < max_clip_duration and every sentence has
\* start_time <= end_time and start_char < end_char.
C16_SegmentsWellFormed ==
    (/\ pc = "returned"
     /\ 0 <= self._min_clip_duration
     /\ self._min_clip_duration < self._max_clip_duration
     /\ \A i \in 1..Len(transcription.sentences) :
           /\ transcription.sentences[i].start_time
                  <= transcription.sentences[i].end_time
           /\ transcription.sentences[i].start_char
                  < transcription.sentences[i].end_char)
    => \A i \in 1..Len(result.value) :
          \/ i = 1 /\ Seeded
          \/ /\ result.value[i].begin_sec < result.value[i].finish_sec
             /\ result.value[i].text_start_idx <= result.value[i].text_end_idx

\* C22: text_tile uses the window size k when k < N and max(N // 5, 2) when
\* k >= N, and the smoothing width passed when it is < N and 2 otherwise; with
\* the clamp of _text_tile before it, the window size used in a round of
\* find_clips (N > 8) is at least 2 and less than N.
C22_WindowWithinSequence ==
    (pc = "rounds" /\ Len(clip_embeddings) > 8) =>
        LET N == Len(clip_embeddings)
            k == ClampK(CurrentK, N)
            used == NewK(k, N)
            width == NewSmoothingWidth(self._smoothing_width, N)
        IN  /\ k = (IF CurrentK < N THEN CurrentK ELSE N)
            /\ k < N => used = k
            /\ k >= N => used = (IF N \div 5 > 2 THEN N \div 5 ELSE 2)
            /\ self._smoothing_width < N => width = self._smoothing_width
            /\ self._smoothing_width >= N => width = 2
            /\ 2 <= used
            /\ used < N

\* a round on MaxUnits sentences whose window size and smoothing width are
\* both too large for them: N // 5 and 2 are used
C22_Witness ==
    /\ pc = "rounds"
    /\ Len(clip_embeddings) = MaxUnits
    /\ Len(clips) = MaxUnits
    /\ CurrentK > MaxUnits
    /\ self._smoothing_width >= MaxUnits
    /\ NewK(ClampK(CurrentK, MaxUnits), MaxUnits) = MaxUnits \div 5
    /\ MaxUnits \div 5 > 2
    /\ last_boundaries = <<>>

\* C24: every window size starts its rounds from the sentences and the
\* sentence embeddings of the transcript, which no step changes; from one
\* window size to the next only the accumulator of accepted candidates is
\* carried: the working clips, the candidates of the last round and the round
\* counter start afresh.
C24_WindowsStartFromSentences ==
    [][/\ transcription' = transcription
       /\ sentence_embeddings' = sentence_embeddings
       /\ (pc' = "rounds" /\ (pc = "start" \/ k_idx' # k_idx
                                            \/ tier_idx' # tier_idx)) =>
              /\ clips' = transcription.sentences
              /\ clip_embeddings' = sentence_embeddings
              /\ new_clips' = <<>>
              /\ self'._text_tile_round = 0
       /\ (pc = "rounds" /\ (k_idx' # k_idx \/ tier_idx' # tier_idx)) =>
              final_clips' = final_clips]_vars

\* the second window size (k = 7) starts on all MaxUnits sentences after the
\* first one coarsened them and accepted a candidate besides the seed
C24_Witness ==
    /\ pc = "rounds"
    /\ tier_idx = 1
    /\ k_idx = 2
    /\ self._text_tile_round = 0
    /\ Len(transcription.sentences) = MaxUnits
    /\ clips = transcription.sentences
    /\ clip_embeddings = sentence_embeddings
    /\ Len(final_clips) >= 2

\* C25: a round runs if and only if the working sequence is longer than 8.
\* At 8 or fewer the loop runs no round, leaves the accumulator as it is and
\* does not raise; so on a transcript of at most 8 sentences find_clips
\* returns the seed segment alone, or the empty list when the transcript is
\* longer than max_clip_duration.
C25_RoundsOnlyAboveEight ==
    /\ [][(self'._text_tile_round = self._text_tile_round + 1) <=>
              (pc = "rounds" /\ Len(clip_embeddings) > 8)]_vars
    /\ [][(pc = "rounds" /\ Len(clip_embeddings) <= 8) =>
              /\ final_clips' = final_clips
              /\ pc' # "raised"]_vars
    /\ [](Len(transcription.sentences) <= 8 =>
              /\ pc # "raised"
              /\ pc = "returned" =>
                    result = Outcome("none",
                        IF transcription.end_time <= self._max_clip_duration
                        THEN <<MediaSegment(SeedClip(transcription))>>
                        ELSE <<>>))

\* exactly 8 sentences that take longer than max_clip_duration: no round has
\* run and the empty list is returned
C25_Witness ==
    /\ pc = "returned"
    /\ Len(transcription.sentences) = 8
    /\ Len(sentence_embeddings) = 8
    /\ transcription.end_time > self._max_clip_duration
    /\ self._text_tile_round = 0
    /\ result = Outcome("none", <<>>)

\* C28: in a round on N >= 3 elements that completes no two adjacent gap
\* positions are both flagged, and the coarsened sequence has at most
\* ceil((N-1)/2) elements; so each round at least halves the length, and a
\* window size on N sentences runs at most log2(N) rounds.
C28_RoundsAtLeastHalve ==
    last_boundaries # <<>> =>
        LET N == Len(last_boundaries)
            r == self._text_tile_round
        IN  /\ N >= 3
            /\ \A i \in 1..(N - 2) :
                  ~(last_boundaries[i] = 1 /\ last_boundaries[i + 1] = 1)
            /\ Len(clips) = CountFlags(last_boundaries)
            /\ Len(clip_embeddings) = Len(clips)
            /\ 2 * Len(clips) <= N + 1
            /\ Len(clips) <= N \div 2
            /\ r >= 1
            /\ (2 ^ r) * Len(clips) <= Len(transcription.sentences)
            /\ 2 ^ r <= Len(transcription.sentences)

\* two rounds of one window size: MaxUnits sentences were coarsened to more
\* than 8 clips, and those again
C28_Witness ==
    /\ pc = "rounds"
    /\ self._text_tile_round = 2
    /\ Len(transcription.sentences) = MaxUnits
    /\ last_boundaries # <<>>
    /\ Len(last_boundaries) > 8
    /\ Len(clips) >= 2

\* C29: what a round returns is a clip list and a pooled embedding sequence
\* of one length; so the length check of _text_tile can fail only in the
\* first round of a window size, on the sentences and their embeddings, and
\* never in a later round.
C29_MismatchOnlyInFirstRound ==
    /\ last_boundaries # <<>> =>
          /\ Len(clips) = Len(clip_embeddings)
          /\ Len(clips) = CountFlags(last_boundaries)
    /\ (pc = "raised" /\ result.raised = "ClipFinderError") =>
          /\ self._text_tile_round = 1
          /\ last_boundaries = <<>>
          /\ clips = transcription.sentences
          /\ clip_embeddings = sentence_embeddings
          /\ Len(transcription.sentences) # Len(sentence_embeddings)

\* a later round passed the length check: a second round of one window size
\* has run on the 9 clips and 9 pooled embeddings that the first one returned
C29_Witness ==
    /\ pc = "rounds"
    /\ self._text_tile_round = 2
    /\ Len(last_boundaries) = 9
    /\ Len(clips) = CountFlags(last_boundaries)
    /\ Len(clip_embeddings) = CountFlags(last_boundaries)

\* the sentences come in the order of their times and character offsets
SentencesOrdered ==
    LET u == transcription.sentences
    IN  /\ \A i \in 1..Len(u) : /\ u[i].start_time <= u[i].end_time
                                /\ u[i].start_char <= u[i].end_char
        /\ \A i \in 1..(Len(u) - 1) : /\ u[i].start_time <= u[i + 1].start_time
                                      /\ u[i].end_time <= u[i + 1].end_time
                                      /\ u[i].start_char <= u[i + 1].start_char
                                      /\ u[i].end_char <= u[i + 1].end_char

\* C30: the candidates of every round of every window size span the whole
\* transcript: the first starts where the first sentence starts, the last
\* ends where the last sentence ends, in time and in characters, and no
\* candidate ends before it starts, the sentences being ordered.
C30_CandidatesSpanTranscript ==
    (last_boundaries # <<>> /\ SentencesOrdered) =>
        LET u == transcription.sentences
        IN  /\ Len(clips) >= 1
            /\ clips[1].start_char = u[1].start_char
            /\ clips[1].start_time = u[1].start_time
            /\ clips[Len(clips)].end_char = u[Len(u)].end_char
            /\ clips[Len(clips)].end_time = u[Len(u)].end_time
            /\ \A i \in 1..Len(clips) : /\ clips[i].start_time <= clips[i].end_time
                                        /\ clips[i].start_char <= clips[i].end_char

\* a round of a window size of the last tier produced three candidates or
\* more out of MaxUnits sentences, from the first sentence to the last
C30_Witness ==
    /\ pc = "rounds"
    /\ tier_idx = 3
    /\ last_boundaries # <<>>
    /\ SentencesOrdered
    /\ Len(transcription.sentences) = MaxUnits
    /\ Len(clips) >= 3
    /\ clips[1].start_time = 0
    /\ clips[Len(clips)].end_time = transcription.end_time

(***************************************************************************)
(* Properties of smooth (SmoothSpec).                                      *)
(***************************************************************************)
\* C17: smooth with a window_len below 3 returns x unchanged, for every score
\* vector x (the width 2 that text_tile puts in for smoothing_width >= N
\* included).
C17_NarrowWindowIsNoOp ==
    (sm_pc = "returned" /\ sm_args.window_len < 3) =>
        /\ sm_out.raised = "none"
        /\ sm_out.y = sm_args.x
        /\ sm_out.den = 1

\* C20: for every window_len >= 3 and every score vector x with
\* len(x) >= window_len, smooth returns exactly len(x) values.
C20_SmoothKeepsLength ==
    (/\ sm_pc = "returned"
     /\ sm_args.window_len >= 3
     /\ Len(sm_args.x) >= sm_args.window_len)
    => /\ sm_out.raised = "none"
       /\ Len(sm_out.y) = Len(sm_args.x)

(***************************************************************************)
(* Properties of two calls on one ClipFinder (TwoRunsSpec).                *)
(***************************************************************************)
Ended(p) == p \in {"returned", "raised"}

BothEnded == Ended(pc) /\ Ended(other.pc)

SameInput ==
    /\ other.transcription = transcription
    /\ other.sentence_embeddings = sentence_embeddings

\* the running call is at the entry of the first _text_tile_multiple_rounds
AtFirstEntry ==
    /\ pc = "rounds"
    /\ tier_idx = 1
    /\ k_idx = 1
    /\ clips = transcription.sentences
    /\ new_clips = <<>>

\* C14: calls on one ClipFinder do not see each other's accepted candidates:
\* the default list of the signature is never bound, so it stays empty; a
\* call enters its first window size with nothing but its own seed; two calls
\* with the same input end with equal results; and every call ends with what
\* find_clips computes from its own arguments alone.
C14_CallsKeepNoState ==
    /\ default_final_clips = <<>>
    /\ AtFirstEntry =>
          final_clips = IF SeedApplies(self, transcription)
                        THEN <<SeedClip(transcription)>> ELSE <<>>
    /\ (BothEnded /\ SameInput) => result = other.result
    /\ BothEnded =>
          /\ result = FindClips(self, transcription, sentence_embeddings)
          /\ other.result =
                 FindClips(self, other.transcription, other.sentence_embeddings)

\* two calls with the same input have both returned a seed and more
C14_Witness ==
    /\ BothEnded
    /\ SameInput
    /\ result.raised = "none"
    /\ Len(result.value) >= 3
    /\ other.result = result

\* C15: two calls whose rounds interleave each end with the list they return
\* alone, and no round reads a round counter that the other call wrote.
C15_RunsShareNothing ==
    /\ [](BothEnded =>
            /\ result = FindClips(self, transcription, sentence_embeddings)
            /\ other.result =
                   FindClips(self, other.transcription, other.sentence_embeddings))
    /\ [][self'._text_tile_round = self._text_tile_round + 1
            => round_owner = running]_vars

(***************************************************************************)
(* Properties of _remove_duplicates (DedupSpec).                           *)
(***************************************************************************)
\* the positions of the candidates that pass both tests of the claim
WithinBoundsAndFar(c, existing, min_dur, max_dur) ==
    /\ min_dur <= c.end_time - c.start_time
    /\ c.end_time - c.start_time <= max_dur
    /\ \A i \in 1..Len(existing) :
          Abs(c.start_time - existing[i].start_time)
              + Abs(c.end_time - existing[i].end_time) >= 15

PassingPositions ==
    {i \in 1..Len(rd_args.potential) :
        WithinBoundsAndFar(rd_args.potential[i], rd_args.existing,
                           rd_args.min_dur, rd_args.max_dur)}

\* C11: _remove_duplicates returns, in input order, exactly the candidates
\* whose duration lies in [min, max], both inclusive, and that are at least 15
\* away (start difference plus end difference) from every existing clip; the
\* existing list is the same after the call.
C11_FilterKeepsExactlyTheFar ==
    rd_pc = "returned" =>
        /\ Len(rd_out.results) = Cardinality(PassingPositions)
        /\ \A j \in 1..Len(rd_out.results) :
              rd_out.results[j] =
                  rd_args.potential[CHOOSE i \in PassingPositions :
                      Cardinality({x \in PassingPositions : x <= i}) = j]
        /\ rd_out.existing = rd_args.existing

\* Scenario D with a candidate exactly 15 away: (105, 195) was dropped,
\* (105, 210) was kept
C11_Witness ==
    /\ rd_pc = "returned"
    /\ rd_args.existing = <<TimedClip(100, 200)>>
    /\ rd_args.potential = <<TimedClip(105, 195), TimedClip(105, 210)>>
    /\ rd_args.min_dur = 15
    /\ rd_out.results = <<TimedClip(105, 210)>>

(***************************************************************************)
(* Properties of the single stages (StageSpec).                            *)
(***************************************************************************)
IsStageCall(stage) == st_pc = "returned" /\ st_args.stage = stage

\* C21: _identify_boundaries flags gap position i exactly when depths[i] is
\* above the cutoff and strictly greater than each neighbour it has; a missing
\* neighbour at an end of the array does not bar the position, so the first
\* and the last depth position are flagged whenever they exceed the cutoff
\* and their one existing neighbour.
C21_EdgePositionsCanQualify ==
    IsStageCall("_identify_boundaries") =>
        LET depths == st_args.depths
            M == Len(depths)
        IN  \A i \in 1..M :
                st_out[i] = 1 <=>
                    /\ AboveCutoff(depths[i], depths, st_args.policy)
                    /\ i > 1 => depths[i] > depths[i - 1]
                    /\ i < M => depths[i] > depths[i + 1]

\* C23: depth[i] is (max of g[0..i] - g[i]) + (max of g[i..M-1] - g[i]), each
\* maximum taken over a range that includes i; so every depth score is >= 0
\* and is 0 at every global maximum of g.
C23_DepthIsDropFromBothPeaks ==
    IsStageCall("_calc_depth_scores") =>
        LET g == st_args.gap_scores
            M == Len(g)
        IN  /\ Len(st_out) = M
            /\ \A i \in 1..M :
                  \E l \in 1..i, r \in i..M :
                      /\ \A j \in 1..i : g[j] <= g[l]
                      /\ \A j \in i..M : g[j] <= g[r]
                      /\ st_out[i] = (g[l] - g[i]) + (g[r] - g[i])
            /\ \A i \in 1..M : st_out[i] >= 0
            /\ \A i \in 1..M : (\A j \in 1..M : g[j] <= g[i]) => st_out[i] = 0

\* a valley between two peaks: gap scores [1, -1, 0, 1] give depths
\* [0, 4, 2, 0]
C23_Witness ==
    /\ IsStageCall("_calc_depth_scores")
    /\ st_args.gap_scores = <<1, -1, 0, 1>>
    /\ st_out = <<0, 4, 2, 0>>

\* C27: the "max" pooling method returns, for a column of values, an element
\* of the column whose absolute value is the largest of the column, with the
\* sign it has in the column.
C27_MaxPoolKeepsSign ==
    IsStageCall("max_magnitude_2d") =>
        LET t == st_args.tensor
        IN  \E i \in 1..Len(t) :
                /\ st_out = t[i]
                /\ \A j \in 1..Len(t) :
                      Abs(t[j].n) * t[i].d <= Abs(t[i].n) * t[j].d

\* the column {2, -5, 3} is pooled to -5
C27_Witness ==
    /\ IsStageCall("max_magnitude_2d")
    /\ st_args.tensor = <<Rat(2, 1), Rat(-5, 1), Rat(3, 1)>>
    /\ st_out = Rat(-5, 1)

=============================================================================
